---- MODULE Spec2Model ----
(***************************************************************************)
(* Battleship core: Ship (geometry and damage) and ShipFactory (random    *)
(* constrained fleet placement), modelled from src/battleship/ship.py,    *)
(* and RandomPlayer and AutomaticPlayer (target selection and the hunt    *)
(* state machine), modelled from src/battleship/player.py.                *)
(*                                                                         *)
(* Python values are modelled as follows: a cell (x, y) is the tuple      *)
(* <<x, y>>; a set of cells is a set; the three-valued results of methods *)
(* that can fall off their end are the strings "True", "False", "None";   *)
(* a cell-valued attribute that holds None is the empty tuple.            *)
(***************************************************************************)
EXTENDS Integers, Sequences, FiniteSets, TLC

VARIABLES
    ship,              \* the Ship object (NullShip before construction)
    call,              \* the last method call on it: operation, arguments, result
    board_size,        \* ShipFactory.board_size, <<width, height>>
    ships_per_length,  \* ShipFactory.ships_per_length, as its (length, count) items in order
    default_used,      \* TRUE iff the factory was built with ships_per_length=None
    ships,             \* generate_ships: the local list `ships`
    key_idx,           \* generate_ships: position of the outer for loop in the dict
    number,            \* generate_ships: ships of the current length placed so far
    pc,                \* generate_ships: "no_factory", "generating", "returned" or "raised"
    board,             \* a player's board, <<board.width, board.height>>
    tracker,           \* RandomPlayer.tracker
    implement_strategy,    \* AutomaticPlayer.implement_strategy
    attacked_positions,    \* AutomaticPlayer.attacked_positions, as the set of its elements
    previous_coordinates,  \* AutomaticPlayer.previous_coordinates
    cycle,                 \* AutomaticPlayer.cycle
    save_ship_initial,     \* AutomaticPlayer.save_ship_initial
    turn,              \* the game loop: the player method called next, or "raised"
    pcall,             \* the last call on the player: operation, arguments, result
    hunt_log           \* the results and targets since the hunt in progress began

vars == <<ship, call, board_size, ships_per_length, default_used, ships, key_idx, number, pc,
          board, tracker, implement_strategy, attacked_positions, previous_coordinates,
          cycle, save_ship_initial, turn, pcall, hunt_log>>

shipVars == <<ship, call>>
factoryVars == <<board_size, ships_per_length, default_used, ships, key_idx, number, pc>>
autoVars == <<implement_strategy, attacked_positions, previous_coordinates, cycle,
              save_ship_initial, hunt_log>>
playerVars == <<board, tracker, autoVars, turn, pcall>>

---------------------------------------------------------------------------
(* Bounds of the model *)

\* Ship endpoints are drawn from (1..MaxX) \X (1..MaxY)
MaxX == 6
MaxY == 3
\* Factory boards are drawn from (1..MaxWidth) \X (1..MaxHeight)
MaxWidth == 3
MaxHeight == 3
\* A non-default ships_per_length has lengths in 1..MaxLength, at most MaxKinds
\* keys, and asks for at most MaxFleet ships in total
MaxLength == 2
MaxKinds == 2
MaxFleet == 2
\* An AutomaticPlayer selects targets while attacked_positions holds fewer than
\* MaxAttacked distinct values
MaxAttacked == 6

\* The ships of an attacked fleet have at most MaxHuntLength cells
MaxHuntLength == 3

Min(a, b) == IF a <= b THEN a ELSE b
Max(a, b) == IF a >= b THEN a ELSE b
Abs(a) == IF a >= 0 THEN a ELSE -a

\* Endpoints given to the Ship constructor
EndpointCells == (1..MaxX) \X (1..MaxY)
\* Cells given to the query methods: the endpoint grid and a border around it
QueryCells == (0..(MaxX + 1)) \X (0..(MaxY + 1))

---------------------------------------------------------------------------
(* class Ship *)

NullShip == [x_start |-> 0, y_start |-> 0, x_end |-> 0, y_end |-> 0,
             cells |-> {}, damaged_cells |-> {}]

\* Python truth value of a three-valued result
Truthy(v) == v = "True"
Py(b) == IF b THEN "True" ELSE "False"

is_vertical(s) == s.x_start = s.x_end

is_horizontal(s) == s.y_start = s.y_end

\* Variant of Normalised: the endpoints are kept in the order given
Normalised_unordered(start, end) ==
    [x_start |-> start[1], x_end |-> end[1], y_start |-> start[2], y_end |-> end[2]]

\* __init__, lines 23-30: unpack, then order each axis with min/max
Normalised(start, end) ==
    [x_start |-> Min(start[1], end[1]), x_end |-> Max(start[1], end[1]),
     y_start |-> Min(start[2], end[2]), y_end |-> Max(start[2], end[2])]

\* Variant of RaisesValueError: `or` in place of `and`
RaisesValueError_or(start, end) ==
    LET s == Normalised(start, end) IN ~is_horizontal(s) \/ ~is_vertical(s)

\* __init__, lines 32-34: raise ValueError
RaisesValueError(start, end) ==
    LET s == Normalised(start, end) IN ~is_horizontal(s) /\ ~is_vertical(s)

\* get_cells; the implicit `return None` of a ship that is neither horizontal
\* nor vertical is the empty set here (__init__ never calls it on such a ship)
get_cells(s) ==
    IF is_horizontal(s)
    THEN {<<x_coordinate, s.y_start>> : x_coordinate \in s.x_start..s.x_end}
    ELSE IF is_vertical(s)
    THEN {<<s.x_start, y_coordinate>> : y_coordinate \in s.y_start..s.y_end}
    ELSE {}

\* The object __init__ leaves behind when it does not raise
NewShip(start, end) ==
    LET s == Normalised(start, end) IN
    [x_start |-> s.x_start, y_start |-> s.y_start,
     x_end |-> s.x_end, y_end |-> s.y_end,
     cells |-> get_cells(s), damaged_cells |-> {}]

length(s) ==
    IF is_horizontal(s) THEN Cardinality(s.cells)
    ELSE IF is_vertical(s) THEN Cardinality(s.cells)
    ELSE 0

\* Variant of is_occupying_cell: the ranges stop before x_end and y_end
is_occupying_cell_short_range(s, cell) ==
    IF is_horizontal(s) /\ s.y_start = cell[2]
    THEN Py(\E x_coordinate \in s.x_start..(s.x_end - 1) : cell[1] = x_coordinate)
    ELSE IF is_vertical(s) /\ s.x_start = cell[1]
    THEN Py(\E y_coordinate \in s.y_start..(s.y_end - 1) : cell[2] = y_coordinate)
    ELSE "None"

\* Variant of is_occupying_cell: the row (column) of the cell is not compared
is_occupying_cell_any_row(s, cell) ==
    IF is_horizontal(s)
    THEN Py(\E x_coordinate \in s.x_start..s.x_end : cell[1] = x_coordinate)
    ELSE IF is_vertical(s)
    THEN Py(\E y_coordinate \in s.y_start..s.y_end : cell[2] = y_coordinate)
    ELSE "None"

\* "True", "False", or "None" when neither branch is entered
is_occupying_cell(s, cell) ==
    LET check_x == cell[1]
        check_y == cell[2] IN
    IF is_horizontal(s) /\ s.y_start = check_y
    THEN Py(\E x_coordinate \in s.x_start..s.x_end : check_x = x_coordinate)
    ELSE IF is_vertical(s) /\ s.x_start = check_x
    THEN Py(\E y_coordinate \in s.y_start..s.y_end : check_y = y_coordinate)
    ELSE "None"

\* Variant of receive_damage_cells: the cell is added without the occupancy test
receive_damage_cells_always(s, cell) == s.damaged_cells \cup {cell}

\* Variant of receive_damage_cells: the hit cell replaces the set
receive_damage_cells_assigned(s, cell) ==
    IF Truthy(is_occupying_cell(s, cell))
    THEN {cell}
    ELSE s.damaged_cells

\* receive_damage: the damaged_cells it leaves, and the value it returns
receive_damage_cells(s, cell) ==
    IF Truthy(is_occupying_cell(s, cell))
    THEN s.damaged_cells \cup {cell}
    ELSE s.damaged_cells

receive_damage_result(s, cell) == Truthy(is_occupying_cell(s, cell))

count_damaged_cells(s) == Cardinality(s.damaged_cells)

\* Variant of has_sunk: the difference is taken the other way round
has_sunk_reversed(s) == Cardinality(s.damaged_cells \ s.cells) = 0

has_sunk(s) == Cardinality(s.cells \ s.damaged_cells) = 0

\* The test of lines 257 and 268
WithinOne(coordinates, cell) ==
    /\ coordinates[1] - 1 <= cell[1] /\ cell[1] <= coordinates[1] + 1
    /\ coordinates[2] - 1 <= cell[2] /\ cell[2] <= coordinates[2] + 1

\* Variant of is_near_cell: diagonal neighbours do not count
is_near_cell_orthogonal(s, cell) ==
    Py(\E coordinates \in s.cells :
          Abs(coordinates[1] - cell[1]) + Abs(coordinates[2] - cell[2]) <= 1)

\* Variant of is_near_cell: only the two end cells of the ship are compared
is_near_cell_endpoints(s, cell) ==
    Py(\E coordinates \in {<<s.x_start, s.y_start>>, <<s.x_end, s.y_end>>} :
          WithinOne(coordinates, cell))

is_near_cell(s, cell) ==
    IF is_horizontal(s)
    THEN Py(\E coordinates \in s.cells : WithinOne(coordinates, cell))
    ELSE IF is_vertical(s)
    THEN Py(\E coordinates \in s.cells : WithinOne(coordinates, cell))
    ELSE "None"

\* Variant of is_near_ship: the loop returns on the first cell of other_ship
is_near_ship_first_cell(s, other_ship) ==
    Truthy(is_near_cell(s, <<other_ship.x_start, other_ship.y_start>>))

is_near_ship(s, other_ship) ==
    \E cell \in other_ship.cells : Truthy(is_near_cell(s, cell))

\* Every ship the constructor can build from the endpoint grid
ValidShips ==
    {NewShip(p[1], p[2]) : p \in {q \in EndpointCells \X EndpointCells :
                                      ~RaisesValueError(q[1], q[2])}}

---------------------------------------------------------------------------
(* Calls on the Ship object *)

NoCall == [op |-> "none", start |-> <<0, 0>>, end |-> <<0, 0>>, cell |-> <<0, 0>>,
           other |-> NullShip, ret |-> "None", n |-> 0]

HasShip == ship # NullShip

\* Ship(start, end), for any two endpoints; on ValueError no object exists
Construct(start, end) ==
    /\ ~HasShip
    /\ IF RaisesValueError(start, end)
       THEN /\ ship' = NullShip
            /\ call' = [NoCall EXCEPT !.op = "__init__", !.start = start, !.end = end,
                                      !.ret = "ValueError"]
       ELSE /\ ship' = NewShip(start, end)
            /\ call' = [NoCall EXCEPT !.op = "__init__", !.start = start, !.end = end]
    /\ UNCHANGED <<factoryVars, playerVars>>

ReceiveDamage(cell) ==
    /\ HasShip
    /\ ship' = [ship EXCEPT !.damaged_cells = receive_damage_cells(ship, cell)]
    /\ call' = [NoCall EXCEPT !.op = "receive_damage", !.cell = cell,
                              !.ret = Py(receive_damage_result(ship, cell))]
    /\ UNCHANGED <<factoryVars, playerVars>>

CountDamagedCells ==
    /\ HasShip
    /\ call' = [NoCall EXCEPT !.op = "count_damaged_cells", !.n = count_damaged_cells(ship)]
    /\ UNCHANGED <<ship, factoryVars, playerVars>>

HasSunk ==
    /\ HasShip
    /\ call' = [NoCall EXCEPT !.op = "has_sunk", !.ret = Py(has_sunk(ship))]
    /\ UNCHANGED <<ship, factoryVars, playerVars>>

Length ==
    /\ HasShip
    /\ call' = [NoCall EXCEPT !.op = "length", !.n = length(ship)]
    /\ UNCHANGED <<ship, factoryVars, playerVars>>

IsOccupyingCell(cell) ==
    /\ HasShip
    /\ call' = [NoCall EXCEPT !.op = "is_occupying_cell", !.cell = cell,
                              !.ret = is_occupying_cell(ship, cell)]
    /\ UNCHANGED <<ship, factoryVars, playerVars>>

IsNearCell(cell) ==
    /\ HasShip
    /\ call' = [NoCall EXCEPT !.op = "is_near_cell", !.cell = cell,
                              !.ret = is_near_cell(ship, cell)]
    /\ UNCHANGED <<ship, factoryVars, playerVars>>

IsNearShip(other_ship) ==
    /\ HasShip
    /\ call' = [NoCall EXCEPT !.op = "is_near_ship", !.other = other_ship,
                              !.ret = Py(is_near_ship(ship, other_ship))]
    /\ UNCHANGED <<ship, factoryVars, playerVars>>

NoFactory ==
    /\ board_size = <<0, 0>>
    /\ ships_per_length = <<>>
    /\ default_used = FALSE
    /\ ships = <<>>
    /\ key_idx = 0
    /\ number = 0
    /\ pc = "no_factory"

\* A cell-valued attribute holding None
NoneCell == <<>>

NoPlayerCall == [op |-> "none", ret |-> NoneCell, hit |-> FALSE, sunk |-> FALSE]

NoHuntLog == [pure |-> FALSE, probes |-> <<>>]

NoPlayer ==
    /\ board = <<0, 0>>
    /\ tracker = {}
    /\ implement_strategy = FALSE
    /\ attacked_positions = {}
    /\ previous_coordinates = NoneCell
    /\ cycle = 0
    /\ save_ship_initial = NoneCell
    /\ turn = "no_player"
    /\ pcall = NoPlayerCall
    /\ hunt_log = NoHuntLog

\* No Ship object yet, no factory, no player
Init ==
    /\ ship = NullShip
    /\ call = NoCall
    /\ NoFactory
    /\ NoPlayer

\* One ship, its construction and its damage
Next ==
    \/ \E start \in EndpointCells, end \in EndpointCells : Construct(start, end)
    \/ \E cell \in QueryCells : ReceiveDamage(cell)
    \/ CountDamagedCells
    \/ HasSunk

Spec == Init /\ [][Next]_vars

\* One ship, its construction and its geometry queries
NextGeom ==
    \/ \E start \in EndpointCells, end \in EndpointCells : Construct(start, end)
    \/ Length
    \/ \E cell \in QueryCells : IsOccupyingCell(cell)
    \/ \E cell \in QueryCells : IsNearCell(cell)
    \/ \E other_ship \in ValidShips : IsNearShip(other_ship)

SpecGeom == Init /\ [][NextGeom]_vars

---------------------------------------------------------------------------
(* class ShipFactory *)

\* __init__, line 291: the default ships_per_length, as its items in order
DefaultShipsPerLength == <<<<1, 1>>, <<2, 1>>, <<3, 1>>, <<4, 1>>, <<5, 1>>>>

RECURSIVE TotalCount(_)
TotalCount(items) ==
    IF items = <<>> THEN 0 ELSE items[1][2] + TotalCount(Tail(items))

\* The ships_per_length dicts passed explicitly: items in insertion order, keys
\* (lengths) distinct and positive, counts from 0
Mappings ==
    {items \in UNION {[1..k -> (1..MaxLength) \X (0..MaxFleet)] : k \in 0..MaxKinds} :
        /\ \A i \in DOMAIN items, j \in DOMAIN items : i # j => items[i][1] # items[j][1]
        /\ TotalCount(items) <= MaxFleet}

Boards == (1..MaxWidth) \X (1..MaxHeight)

\* A smallest board on which the default fleet can be placed
DefaultBoards == {<<5, 6>>}

\* __init__: ShipFactory(board_size, ships_per_length), None selecting the default
InitFactory ==
    /\ ship = NullShip
    /\ call = NoCall
    /\ \/ /\ default_used = FALSE
          /\ board_size \in Boards
          /\ ships_per_length \in Mappings
       \/ /\ default_used = TRUE
          /\ board_size \in Boards \cup DefaultBoards
          /\ ships_per_length = DefaultShipsPerLength
    /\ ships = <<>>
    /\ key_idx = 1
    /\ number = 0
    /\ pc = "generating"
    /\ NoPlayer

width == board_size[1]
height == board_size[2]

\* The key and the count the two for loops are at
CurrentLength == ships_per_length[key_idx][1]
CurrentCount == ships_per_length[key_idx][2]

\* Inside the while loop: a ship of the current length is still to be placed
InWhile ==
    /\ pc = "generating"
    /\ key_idx <= Len(ships_per_length)
    /\ number < CurrentCount

\* Variant of end_coordinate: `length` is added without the `- 1`
end_coordinate_plus_length(start_coordinate, is_horizontal_choice, len) ==
    IF is_horizontal_choice = 1
    THEN <<start_coordinate[1] + len, start_coordinate[2]>>
    ELSE <<start_coordinate[1], start_coordinate[2] + len>>

\* lines 346-350
end_coordinate(start_coordinate, is_horizontal_choice, len) ==
    IF is_horizontal_choice = 1
    THEN <<start_coordinate[1] + len - 1, start_coordinate[2]>>
    ELSE <<start_coordinate[1], start_coordinate[2] + len - 1>>

\* Variant of EndWithinBoard: the height is not compared
EndWithinBoard_width_only(end) == width >= end[1] /\ end[1] > 0

\* line 352, the condition under `not`
EndWithinBoard(end) ==
    /\ width >= end[1] /\ end[1] > 0
    /\ height >= end[2] /\ end[2] > 0

\* lines 357-365: the value of dummy_variable after the scan of `ships`
NearSomeShip(new_ship) ==
    \E i \in 1..Len(ships) : is_near_ship(ships[i], new_ship)

\* lines 343-345: the random draws of one iteration of the while loop
StartCoordinates == (1..width) \X (1..height)
OrientationChoices == {0, 1}

\* One iteration of the while loop (lines 341-373) with the draws of lines
\* 343-345: it ends at `continue` when the end cell is off the board, leaves
\* dummy_variable True when the candidate is near a placed ship, and otherwise
\* appends the candidate and leaves the loop; a ValueError of Ship(...) would
\* leave generate_ships
Attempt(start_coordinate, is_horizontal_choice) ==
    LET end == end_coordinate(start_coordinate, is_horizontal_choice, CurrentLength) IN
    /\ InWhile
    /\ IF ~EndWithinBoard(end)
       THEN UNCHANGED <<ships, number, pc>>
       ELSE IF RaisesValueError(start_coordinate, end)
       THEN pc' = "raised" /\ UNCHANGED <<ships, number>>
       ELSE IF Len(ships) # 0 /\ NearSomeShip(NewShip(start_coordinate, end))
       THEN UNCHANGED <<ships, number, pc>>
       ELSE /\ ships' = Append(ships, NewShip(start_coordinate, end))
            /\ number' = number + 1
            /\ UNCHANGED pc
    /\ UNCHANGED <<ship, call, board_size, ships_per_length, default_used, key_idx, playerVars>>

\* The inner for loop is exhausted: the outer loop takes the next key
NextLength ==
    /\ pc = "generating"
    /\ key_idx <= Len(ships_per_length)
    /\ number >= CurrentCount
    /\ key_idx' = key_idx + 1
    /\ number' = 0
    /\ UNCHANGED <<ship, call, board_size, ships_per_length, default_used, ships, pc, playerVars>>

\* line 374
Return ==
    /\ pc = "generating"
    /\ key_idx > Len(ships_per_length)
    /\ pc' = "returned"
    /\ UNCHANGED <<ship, call, board_size, ships_per_length, default_used, ships, key_idx, number,
                   playerVars>>

NextFactory ==
    \/ \E start_coordinate \in StartCoordinates, is_horizontal_choice \in OrientationChoices :
          Attempt(start_coordinate, is_horizontal_choice)
    \/ NextLength
    \/ Return

SpecFactory == InitFactory /\ [][NextFactory]_vars

---------------------------------------------------------------------------
(* class RandomPlayer, class AutomaticPlayer *)

\* The cells of the player's board (random.randint(1, width), randint(1, height))
BoardCells == (1..board[1]) \X (1..board[2])

\* RandomPlayer.__init__
InitRandom ==
    /\ ship = NullShip
    /\ call = NoCall
    /\ NoFactory
    /\ board \in Boards
    /\ tracker = {}
    /\ implement_strategy = FALSE
    /\ attacked_positions = {}
    /\ previous_coordinates = NoneCell
    /\ cycle = 0
    /\ save_ship_initial = NoneCell
    /\ turn = "select_target"
    /\ pcall = NoPlayerCall
    /\ hunt_log = NoHuntLog

\* Variant of generate_random_target: the tracker is not consulted
generate_random_target_any == BoardCells

\* generate_random_target: the cells the while loop can leave with
generate_random_target == BoardCells \ tracker

\* RandomPlayer.select_target, for the cell generate_random_target returns
RandomSelectTarget(target_cell) ==
    /\ turn = "select_target"
    /\ target_cell \in generate_random_target
    /\ tracker' = tracker \cup {target_cell}
    /\ pcall' = [NoPlayerCall EXCEPT !.op = "select_target", !.ret = target_cell]
    /\ UNCHANGED <<shipVars, factoryVars, board, autoVars, turn>>

NextRandom == \E target_cell \in BoardCells : RandomSelectTarget(target_cell)

SpecRandom == InitRandom /\ [][NextRandom]_vars

\* AutomaticPlayer.__init__
InitAuto ==
    /\ ship = NullShip
    /\ call = NoCall
    /\ NoFactory
    /\ board \in Boards
    /\ tracker = {}
    /\ implement_strategy = FALSE
    /\ attacked_positions = {}
    /\ previous_coordinates = NoneCell
    /\ cycle = 0
    /\ save_ship_initial = NoneCell
    /\ turn = "select_target"
    /\ pcall = NoPlayerCall
    /\ hunt_log = NoHuntLog

\* The bounds test of lines 247, 256, 264 and 272
WithinBoard(coordinates) ==
    /\ 0 < coordinates[1] /\ coordinates[1] <= board[1]
    /\ 0 < coordinates[2] /\ coordinates[2] <= board[2]

\* Variant of candidate: east and west are exchanged
candidate_east_west(previous, direction) ==
    LET x == previous[1]
        y == previous[2] IN
    IF direction = 0 THEN <<x, y + 1>>
    ELSE IF direction = 1 THEN <<x - 1, y>>
    ELSE IF direction = 2 THEN <<x, y - 1>>
    ELSE <<x + 1, y>>

\* The coordinates tried for each value of cycle (lines 245, 254, 262, 270)
candidate(previous, direction) ==
    LET x == previous[1]
        y == previous[2] IN
    IF direction = 0 THEN <<x, y + 1>>
    ELSE IF direction = 1 THEN <<x + 1, y>>
    ELSE IF direction = 2 THEN <<x, y - 1>>
    ELSE <<x - 1, y>>

\* strategy_function from previous_coordinates (a cell) and cycle: the value
\* returned (NoneCell when the function falls off its end) and the cycle left
strategy_function(previous, cycle0) ==
    LET cycle1 == IF cycle0 = 0 THEN 1 ELSE cycle0
        cycle2 == IF cycle1 = 1 THEN 2 ELSE cycle1
        cycle3 == IF cycle2 = 2 THEN 3 ELSE cycle2
    IN
    IF cycle0 = 0 /\ WithinBoard(candidate(previous, 0))
    THEN [ret |-> candidate(previous, 0), cycle |-> cycle0]
    ELSE IF cycle1 = 1 /\ WithinBoard(candidate(previous, 1))
    THEN [ret |-> candidate(previous, 1), cycle |-> cycle1]
    ELSE IF cycle2 = 2 /\ WithinBoard(candidate(previous, 2))
    THEN [ret |-> candidate(previous, 2), cycle |-> cycle2]
    ELSE IF cycle3 = 3 /\ WithinBoard(candidate(previous, 3))
    THEN [ret |-> candidate(previous, 3), cycle |-> cycle3]
    ELSE [ret |-> NoneCell, cycle |-> IF cycle3 = 3 THEN 0 ELSE cycle3]

\* The targets of a hunt are logged while every result since its start was a miss
LogProbe(coordinates) ==
    IF hunt_log.pure /\ Len(hunt_log.probes) < 4
    THEN [hunt_log EXCEPT !.probes = Append(@, coordinates)]
    ELSE hunt_log

\* Variant of RecordTarget: the target is not appended to attacked_positions
RecordTarget_not_appended(coordinates) ==
    /\ previous_coordinates' = coordinates
    /\ attacked_positions' = attacked_positions
    /\ pcall' = [NoPlayerCall EXCEPT !.op = "select_target", !.ret = coordinates]
    /\ turn' = "receive_result"

\* select_target, lines 197-199
RecordTarget(coordinates) ==
    /\ previous_coordinates' = coordinates
    /\ attacked_positions' = attacked_positions \cup {coordinates}
    /\ pcall' = [NoPlayerCall EXCEPT !.op = "select_target", !.ret = coordinates]
    /\ turn' = "receive_result"

\* Variant of random_candidates: attacked cells are not excluded
random_candidates_any == BoardCells

\* lines 192-195: the cells the while loop can leave with
random_candidates == BoardCells \ attacked_positions

\* select_target with implement_strategy False: a random cell not yet attacked
AutoSelectRandom(coordinates) ==
    /\ turn = "select_target"
    /\ ~implement_strategy
    /\ coordinates \in random_candidates
    /\ RecordTarget(coordinates)
    /\ UNCHANGED <<shipVars, factoryVars, board, tracker, implement_strategy, cycle,
                   save_ship_initial, hunt_log>>

\* select_target with implement_strategy True: the value of strategy_function
AutoSelectStrategy ==
    /\ turn = "select_target"
    /\ implement_strategy
    /\ previous_coordinates # NoneCell
    /\ LET result == strategy_function(previous_coordinates, cycle) IN
          /\ cycle' = result.cycle
          /\ RecordTarget(result.ret)
          /\ hunt_log' = LogProbe(result.ret)
    /\ UNCHANGED <<shipVars, factoryVars, board, tracker, implement_strategy, save_ship_initial>>

\* select_target with implement_strategy True and previous_coordinates None:
\* line 242 cannot unpack None and raises TypeError
AutoSelectRaises ==
    /\ turn = "select_target"
    /\ implement_strategy
    /\ previous_coordinates = NoneCell
    /\ turn' = "raised"
    /\ pcall' = [NoPlayerCall EXCEPT !.op = "select_target"]
    /\ UNCHANGED <<shipVars, factoryVars, board, tracker, autoVars>>

\* Variant of IsHitNotSunk: has_ship_sunk is not tested
IsHitNotSunk_hit_only(is_ship_hit, has_ship_sunk) == is_ship_hit

\* line 209
IsHitNotSunk(is_ship_hit, has_ship_sunk) == is_ship_hit /\ ~has_ship_sunk

\* Variant of anchor_after_hit: every hit moves the anchor
anchor_after_hit_always(initial, previous) ==
    IF previous = NoneCell THEN initial ELSE <<previous[1], previous[2]>>

\* lines 212-213, for previous_coordinates a cell
anchor_after_hit(initial, previous) ==
    IF initial = NoneCell THEN <<previous[1], previous[2]>> ELSE initial

\* Variant of cycle_after_miss: cycle is set to 1
cycle_after_miss_one(c) == 1

\* line 222
cycle_after_miss(c) == c + 1

\* Variant of previous_after_miss: previous_coordinates stays at the missed cell
previous_after_miss_stays(initial, previous) == previous

\* line 223
previous_after_miss(initial, previous) == <<initial[1], initial[2]>>

\* Variant of anchor_after_sunk: the anchor is kept
anchor_after_sunk_kept(initial) == initial

\* Line 218: the anchor after a sunk result
anchor_after_sunk(initial) == NoneCell

\* receive_result(is_ship_hit, has_ship_sunk): what it does to the player
receive_result(is_ship_hit, has_ship_sunk) ==
    /\ turn = "receive_result"
    /\ pcall' = [NoPlayerCall EXCEPT !.op = "receive_result", !.hit = is_ship_hit,
                                     !.sunk = has_ship_sunk]
    /\ IF IsHitNotSunk(is_ship_hit, has_ship_sunk)
       THEN IF save_ship_initial = NoneCell /\ previous_coordinates = NoneCell
            THEN \* line 213 subscripts None: TypeError, after line 210
                 /\ implement_strategy' = TRUE
                 /\ turn' = "raised"
                 /\ UNCHANGED <<attacked_positions, previous_coordinates, cycle,
                                save_ship_initial, hunt_log>>
            ELSE /\ implement_strategy' = TRUE
                 /\ save_ship_initial' =
                       anchor_after_hit(save_ship_initial, previous_coordinates)
                 /\ hunt_log' = IF implement_strategy THEN NoHuntLog
                                ELSE [pure |-> TRUE, probes |-> <<>>]
                 /\ turn' = "select_target"
                 /\ UNCHANGED <<attacked_positions, previous_coordinates, cycle>>
       ELSE IF has_ship_sunk
       THEN /\ implement_strategy' = FALSE
            /\ cycle' = 0
            /\ save_ship_initial' = anchor_after_sunk(save_ship_initial)
            /\ hunt_log' = NoHuntLog
            /\ turn' = "select_target"
            /\ UNCHANGED <<attacked_positions, previous_coordinates>>
       ELSE IF ~is_ship_hit /\ implement_strategy /\ cycle < 4
       THEN /\ cycle' = cycle_after_miss(cycle)
            /\ previous_coordinates' =
                  previous_after_miss(save_ship_initial, previous_coordinates)
            /\ turn' = "select_target"
            /\ UNCHANGED <<implement_strategy, attacked_positions, save_ship_initial,
                           hunt_log>>
       ELSE /\ turn' = "select_target"
            /\ UNCHANGED autoVars

\* receive_result called with any result
AutoReceiveResult(is_ship_hit, has_ship_sunk) ==
    /\ receive_result(is_ship_hit, has_ship_sunk)
    /\ UNCHANGED <<shipVars, factoryVars, board, tracker>>

\* The game loop: select_target and receive_result in turn
NextAuto ==
    \/ /\ Cardinality(attacked_positions) < MaxAttacked
       /\ \/ \E coordinates \in BoardCells : AutoSelectRandom(coordinates)
          \/ AutoSelectStrategy
    \/ AutoSelectRaises
    \/ \E is_ship_hit \in BOOLEAN, has_ship_sunk \in BOOLEAN :
          AutoReceiveResult(is_ship_hit, has_ship_sunk)

SpecAuto == InitAuto /\ [][NextAuto]_vars

(***************************************************************************)
(* AutomaticPlayer attacking a fleet, with truthful results                *)
(***************************************************************************)

\* The ships of at most MaxHuntLength cells that lie on board b
HuntShips(b) ==
    {sh \in {NewShip(start, <<start[1] + dx, start[2] + dy>>) :
                start \in (1..b[1]) \X (1..b[2]),
                dx \in 0..(MaxHuntLength - 1), dy \in 0..(MaxHuntLength - 1)} :
        /\ sh.x_start = sh.x_end \/ sh.y_start = sh.y_end
        /\ sh.x_end <= b[1] /\ sh.y_end <= b[2]}

\* Orders the ships of a fleet, which have different first cells
ShipKey(sh) == sh.x_start * (MaxHeight + MaxHuntLength) + sh.y_start

\* The fleets of one or two ships on board b, no ship near another: what
\* generate_ships returns, each fleet in one order
HuntFleets(b) ==
    {<<sh>> : sh \in HuntShips(b)}
    \cup {<<p[1], p[2]>> : p \in {q \in HuntShips(b) \X HuntShips(b) :
                                     /\ ShipKey(q[1]) < ShipKey(q[2])
                                     /\ ~is_near_ship(q[1], q[2])}}

\* A new AutomaticPlayer and the undamaged fleet it attacks
InitHunt ==
    /\ ship = NullShip
    /\ call = NoCall
    /\ board \in Boards
    /\ board_size = board
    /\ ships \in HuntFleets(board)
    /\ ships_per_length = <<>>
    /\ default_used = FALSE
    /\ key_idx = 0
    /\ number = 0
    /\ pc = "returned"
    /\ tracker = {}
    /\ implement_strategy = FALSE
    /\ attacked_positions = {}
    /\ previous_coordinates = NoneCell
    /\ cycle = 0
    /\ save_ship_initial = NoneCell
    /\ turn = "select_target"
    /\ pcall = NoPlayerCall
    /\ hunt_log = NoHuntLog

\* The fleet after an attack at cell: every ship receives the damage
fleet_after_attack(fleet, cell) ==
    [i \in DOMAIN fleet |->
        [fleet[i] EXCEPT !.damaged_cells = receive_damage_cells(fleet[i], cell)]]

\* The attack at cell is a hit: some ship returns True from receive_damage
attack_is_hit(fleet, cell) ==
    \E i \in DOMAIN fleet : receive_damage_result(fleet[i], cell)

\* The attack at cell sinks a ship: the ship it hits has sunk afterwards
attack_has_sunk(fleet, cell) ==
    \E i \in DOMAIN fleet :
        /\ receive_damage_result(fleet[i], cell)
        /\ has_sunk(fleet_after_attack(fleet, cell)[i])

\* The last target is attacked and its truthful result is given to
\* receive_result; without a target there is no attack to make
HuntReceiveResult ==
    /\ turn = "receive_result"
    /\ IF previous_coordinates = NoneCell
       THEN /\ turn' = "raised"
            /\ pcall' = [NoPlayerCall EXCEPT !.op = "receive_result"]
            /\ UNCHANGED <<ships, autoVars>>
       ELSE /\ ships' = fleet_after_attack(ships, previous_coordinates)
            /\ receive_result(attack_is_hit(ships, previous_coordinates),
                              attack_has_sunk(ships, previous_coordinates))
    /\ UNCHANGED <<shipVars, board_size, ships_per_length, default_used, key_idx, number,
                   pc, board, tracker>>

\* The game loop against the fleet; only random selection stops at
\* MaxAttacked, so that no hunt is cut short
NextHunt ==
    \/ /\ Cardinality(attacked_positions) < MaxAttacked
       /\ \E coordinates \in BoardCells : AutoSelectRandom(coordinates)
    \/ AutoSelectStrategy
    \/ HuntReceiveResult

\* The game loop takes its next step whenever there is one
SpecHunt == InitHunt /\ [][NextHunt]_vars /\ WF_vars(NextHunt)

---------------------------------------------------------------------------
(* Properties *)

Chebyshev(c, d) == Max(Abs(c[1] - d[1]), Abs(c[2] - d[2]))

Sign(v) == IF v > 0 THEN 1 ELSE IF v < 0 THEN -1 ELSE 0

\* The cells of the inclusive line segment from a to b (a, b on one row or column)
Segment(a, b) ==
    LET steps == Max(Abs(b[1] - a[1]), Abs(b[2] - a[2])) IN
    {<<a[1] + t * Sign(b[1] - a[1]), a[2] + t * Sign(b[2] - a[2])>> : t \in 0..steps}

\* C1: when generate_ships has returned, every cell of every ship of the fleet is
\* on the board, and any two cells of two distinct ships are at Chebyshev
\* distance greater than 1 (no overlap, no edge or diagonal adjacency).
C1_FleetOnBoardAndApart ==
    pc = "returned" =>
        /\ \A i \in 1..Len(ships) : \A c \in ships[i].cells :
              c[1] \in 1..width /\ c[2] \in 1..height
        /\ \A i \in 1..Len(ships), j \in 1..Len(ships) :
              i # j => \A c \in ships[i].cells, d \in ships[j].cells : Chebyshev(c, d) > 1

\* A returned fleet with a horizontal and a vertical ship longer than one cell
C1_Witness ==
    /\ pc = "returned"
    /\ \E i \in 1..Len(ships), j \in 1..Len(ships) :
          /\ ships[i].x_start < ships[i].x_end
          /\ ships[j].y_start < ships[j].y_end

\* C2: when generate_ships has returned, the fleet holds for every requested
\* length exactly the requested number of ships of that length and no ship of
\* another length; with the default request it is five ships of lengths 1..5.
C2_FleetMatchesRequest ==
    pc = "returned" =>
        /\ \A k \in 1..Len(ships_per_length) :
              Cardinality({i \in 1..Len(ships) :
                  Cardinality(ships[i].cells) = ships_per_length[k][1]})
                = ships_per_length[k][2]
        /\ \A i \in 1..Len(ships) : \E k \in 1..Len(ships_per_length) :
              Cardinality(ships[i].cells) = ships_per_length[k][1]
        /\ default_used =>
              /\ Len(ships) = 5
              /\ \A L \in 1..5 : \E i \in 1..5 : Cardinality(ships[i].cells) = L

\* The default fleet has been returned
C2_Witness ==
    /\ pc = "returned"
    /\ default_used
    /\ Len(ships) = 5

\* C3, the result: receive_damage(c) returns True iff c is a cell of the ship,
\* and then c is damaged.
C3_Result ==
    call.op = "receive_damage" =>
        /\ call.ret \in {"True", "False"}
        /\ (call.ret = "True") <=> (call.cell \in ship.cells)
        /\ call.ret = "True" => call.cell \in ship.damaged_cells

\* C3, the effect of one call: a call that returns False leaves damaged_cells
\* as it was, and a call on an already damaged cell returns True and leaves
\* damaged_cells as it was.
C3_Effect ==
    (HasShip /\ call'.op = "receive_damage") =>
        /\ call'.ret = "False" => ship'.damaged_cells = ship.damaged_cells
        /\ call'.ret = "True" => ship'.damaged_cells = ship.damaged_cells \cup {call'.cell}
        /\ call'.cell \in ship.damaged_cells =>
              call'.ret = "True" /\ ship'.damaged_cells = ship.damaged_cells

\* C3: receive_damage(c) returns True iff the ship occupies c; True puts c in
\* damaged_cells, False changes nothing, and damaging a damaged cell again
\* returns True and changes nothing.
C3_ReceiveDamage == []C3_Result /\ [][C3_Effect]_vars

\* A hit on a ship that already has another damaged cell
C3_Witness ==
    /\ call.op = "receive_damage"
    /\ call.ret = "True"
    /\ Cardinality(ship.damaged_cells) >= 2

\* C4: damaged_cells is always a subset of cells, and no call changes the cells
\* of a constructed ship.
C4_DamagedWithinCells ==
    /\ [](ship.damaged_cells \subseteq ship.cells)
    /\ [][HasShip => ship'.cells = ship.cells]_vars

\* A miss on a ship that is already damaged
C4_Witness ==
    /\ call.op = "receive_damage"
    /\ call.ret = "False"
    /\ ship.damaged_cells # {}

\* C5: has_sunk() is True iff damaged_cells equals cells; a new ship is not
\* sunk, nor is a ship with fewer damaged cells than its length.
C5_SunkIffAllDamaged ==
    /\ HasShip => (has_sunk(ship) <=> ship.damaged_cells = ship.cells)
    /\ call.op = "has_sunk" => ((call.ret = "True") <=> ship.damaged_cells = ship.cells)
    /\ (HasShip /\ call.op = "__init__") => ~has_sunk(ship)
    /\ (HasShip /\ Cardinality(ship.damaged_cells) < Cardinality(ship.cells)) =>
          ~has_sunk(ship)

\* has_sunk() has returned True for a ship of several cells
C5_Witness ==
    /\ call.op = "has_sunk"
    /\ call.ret = "True"
    /\ Cardinality(ship.cells) >= 2

\* C6: Ship(start, end) raises iff the endpoints differ in x and in y, and then
\* there is no ship; otherwise there is one, of one cell when start = end.
C6_RaisesIffDiagonal ==
    call.op = "__init__" =>
        /\ (call.ret = "ValueError") <=>
              (call.start[1] # call.end[1] /\ call.start[2] # call.end[2])
        /\ (call.ret = "ValueError") <=> ~HasShip
        /\ call.start = call.end => (HasShip /\ ship.cells = {call.start})

\* A construction has raised ValueError
C6_Witness ==
    /\ call.op = "__init__"
    /\ call.ret = "ValueError"
    /\ ~HasShip

\* C7: Ship(a, b) and Ship(b, a) occupy the cells of the segment from a to b;
\* length() is the number of these cells, max(|ax-bx|, |ay-by|) + 1, at least 1.
C7_CellsAreTheSegment ==
    /\ (HasShip /\ call.op = "__init__") =>
          /\ ship.cells = Segment(call.start, call.end)
          /\ NewShip(call.end, call.start).cells = ship.cells
          /\ length(ship) = Cardinality(ship.cells)
          /\ length(ship) = Max(Abs(call.start[1] - call.end[1]),
                                Abs(call.start[2] - call.end[2])) + 1
    /\ call.op = "length" =>
          /\ call.n = Cardinality(ship.cells)
          /\ call.n = Max(ship.x_end - ship.x_start, ship.y_end - ship.y_start) + 1
          /\ call.n >= 1

\* A ship of three cells or more built from its right end to its left end
C7_Witness ==
    /\ HasShip
    /\ call.op = "__init__"
    /\ call.start[1] >= call.end[1] + 2

C9_NearIffWithinOne ==
    /\ call.op = "is_near_cell" =>
          call.ret = Py(\E c \in ship.cells : Chebyshev(c, call.cell) <= 1)
    /\ call.op = "is_near_ship" =>
          call.ret = Py(\E c \in ship.cells, d \in call.other.cells : Chebyshev(c, d) <= 1)
    /\ (call.op = "is_near_cell" /\ ship.cells = {<<3, 3>>, <<4, 3>>, <<5, 3>>}) =>
          /\ call.cell \in {<<5, 3>>, <<6, 3>>, <<6, 4>>} => call.ret = "True"
          /\ call.cell = <<7, 3>> => call.ret = "False"

\* The ship (3,3)-(5,3) has been asked about (7,3)
C9_Witness ==
    /\ ship.cells = {<<3, 3>>, <<4, 3>>, <<5, 3>>}
    /\ call.op = "is_near_cell"
    /\ call.cell = <<7, 3>>
    /\ call.ret = "False"

\* C10: S1.is_near_ship(S2) equals S2.is_near_ship(S1).
C10_NearShipSymmetric ==
    call.op = "is_near_ship" => call.ret = Py(is_near_ship(call.other, ship))

\* Two near ships of different orientation that do not overlap
C10_Witness ==
    /\ call.op = "is_near_ship"
    /\ call.ret = "True"
    /\ ship.x_start < ship.x_end
    /\ call.other.y_start < call.other.y_end
    /\ ship.cells \cap call.other.cells = {}

\* A step that is a call of AutomaticPlayer.receive_result
ReceiveResultStep == turn = "receive_result" /\ pcall'.op = "receive_result"

\* A step that is a call of AutomaticPlayer.select_target that returns
SelectTargetStep == turn = "select_target" /\ turn' = "receive_result"

\* The direction vectors North, East, South, West
Direction(k) ==
    IF k = 0 THEN <<0, 1>>
    ELSE IF k = 1 THEN <<1, 0>>
    ELSE IF k = 2 THEN <<0, -1>>
    ELSE <<-1, 0>>

Plus(c, v) == <<c[1] + v[1], c[2] + v[2]>>

\* C11: a (hit, not sunk) result received while Idle makes the player Hunting
\* with the anchor at the cell just selected; received while Hunting it leaves
\* the player Hunting and the anchor and the probe direction as they were.
C11_HitStartsOrKeepsHunt ==
    [][(ReceiveResultStep /\ pcall'.hit /\ ~pcall'.sunk) =>
          /\ implement_strategy'
          /\ turn' = "select_target"
          /\ ~implement_strategy =>
                /\ pcall.ret \in BoardCells
                /\ save_ship_initial' = pcall.ret
          /\ implement_strategy =>
                /\ save_ship_initial' = save_ship_initial
                /\ cycle' = cycle]_vars

\* A later hit of a hunt: the anchor is not the cell just hit
C11_Witness ==
    /\ pcall.op = "receive_result"
    /\ pcall.hit /\ ~pcall.sunk
    /\ implement_strategy
    /\ cycle > 0
    /\ previous_coordinates # NoneCell
    /\ save_ship_initial # previous_coordinates

\* C12: a result with sunk = true leaves the player Idle, with cycle 0 and no
\* anchor, whatever hit is and whatever the hunt state was.
C12_SunkResets ==
    [][(ReceiveResultStep /\ pcall'.sunk) =>
          /\ ~implement_strategy'
          /\ cycle' = 0
          /\ save_ship_initial' = NoneCell]_vars

\* A (hit, sunk) result has been received
C12_Witness ==
    /\ pcall.op = "receive_result"
    /\ pcall.sunk /\ pcall.hit
    /\ Cardinality(attacked_positions) >= 3

\* C13: a (miss, not sunk) result received while Hunting with cycle < 4 adds
\* one to cycle and sets previous_coordinates to the anchor, leaving the hunt
\* flag and the anchor; received while Idle it leaves the hunt state.
C13_MissAdvances ==
    [][(ReceiveResultStep /\ ~pcall'.hit /\ ~pcall'.sunk) =>
          /\ (implement_strategy /\ cycle < 4) =>
                /\ cycle' = cycle + 1
                /\ previous_coordinates' = save_ship_initial
                /\ implement_strategy'
                /\ save_ship_initial' = save_ship_initial
          /\ ~implement_strategy =>
                UNCHANGED <<implement_strategy, cycle, save_ship_initial,
                            previous_coordinates, attacked_positions>>]_vars

\* A miss of a hunt whose target was not the anchor's neighbour to the north
C13_Witness ==
    /\ pcall.op = "receive_result"
    /\ ~pcall.hit /\ ~pcall.sunk
    /\ implement_strategy
    /\ cycle = 3
    /\ previous_coordinates = save_ship_initial

\* C14 as stated: a cell returned by select_target while Hunting is the anchor
\* offset by the direction vector of the cycle in effect when it returns.
C14_TargetIsAnchorOffset ==
    [][(SelectTargetStep /\ implement_strategy /\ pcall'.ret # NoneCell) =>
          pcall'.ret = Plus(save_ship_initial, Direction(cycle'))]_vars

\* C14 as amended: a cell returned by select_target while Hunting is
\* previous_coordinates (the anchor when the hunt has just begun or the last
\* result was a miss, else the last target) offset by the direction vector of
\* the cycle in effect when it returns; it is the anchor's neighbour in that
\* direction whenever previous_coordinates is the anchor.
C14_TargetIsPreviousOffset ==
    [][(SelectTargetStep /\ implement_strategy /\ pcall'.ret # NoneCell) =>
          /\ cycle' \in 0..3
          /\ pcall'.ret = Plus(previous_coordinates, Direction(cycle'))
          /\ Abs(pcall'.ret[1] - previous_coordinates[1])
               + Abs(pcall'.ret[2] - previous_coordinates[2]) = 1
          /\ previous_coordinates = save_ship_initial =>
                pcall'.ret = Plus(save_ship_initial, Direction(cycle'))]_vars

\* A target of a hunt two cells away from the anchor
C14_Witness ==
    /\ pcall.op = "select_target"
    /\ implement_strategy
    /\ pcall.ret # NoneCell
    /\ Abs(pcall.ret[1] - save_ship_initial[1])
         + Abs(pcall.ret[2] - save_ship_initial[2]) = 2

\* The four orthogonal neighbours of a cell are on the board
NeighboursOnBoard(c) == \A k \in 0..3 : Plus(c, Direction(k)) \in BoardCells

\* C15: when a hunt has begun at an anchor whose four neighbours are on the
\* board and every result since was a miss, the targets selected since are,
\* in order, the anchor's neighbours to the north, east, south and west.
C15_ProbesInOrder ==
    (implement_strategy /\ hunt_log.pure /\ NeighboursOnBoard(save_ship_initial)) =>
        \A i \in 1..Len(hunt_log.probes) :
            hunt_log.probes[i] = Plus(save_ship_initial, Direction(i - 1))

\* Four probes have been selected in a hunt with misses only
C15_Witness ==
    /\ implement_strategy
    /\ hunt_log.pure
    /\ NeighboursOnBoard(save_ship_initial)
    /\ Len(hunt_log.probes) = 4

\* C16 as stated: cycle is always one of 0, 1, 2, 3.
C16_CycleInRange == cycle \in 0..3

\* C17: a select_target that returns has its value in attacked_positions and
\* in previous_coordinates; attacked_positions never loses an element.
C17_TargetsRecorded ==
    /\ [][SelectTargetStep =>
            /\ pcall'.ret \in attacked_positions'
            /\ previous_coordinates' = pcall'.ret]_vars
    /\ [][attacked_positions \subseteq attacked_positions']_vars

\* A probe of a hunt has been returned and recorded
C17_Witness ==
    /\ pcall.op = "select_target"
    /\ implement_strategy
    /\ pcall.ret \in BoardCells
    /\ pcall.ret \in attacked_positions
    /\ Cardinality(attacked_positions) >= 3

\* C18: a cell returned by select_target while Idle is on the board and was
\* not in attacked_positions before the call.
C18_IdleTargetIsFresh ==
    [][(SelectTargetStep /\ ~implement_strategy) =>
          /\ pcall'.ret \in BoardCells
          /\ pcall'.ret \notin attacked_positions]_vars

\* An Idle selection after a hunt whose probes are in attacked_positions
C18_Witness ==
    /\ pcall.op = "select_target"
    /\ ~implement_strategy
    /\ Cardinality(attacked_positions) >= 4

\* C19: every cell RandomPlayer.select_target returns is on the board, was
\* not in the tracker before the call and is in it afterwards.
C19_RandomTargetIsFresh ==
    [][/\ pcall'.ret \in BoardCells
       /\ pcall'.ret \notin tracker
       /\ pcall'.ret \in tracker']_vars

\* Every cell of a board of four cells or more has been returned
C19_Witness ==
    /\ pcall.op = "select_target"
    /\ tracker = BoardCells
    /\ Cardinality(tracker) >= 4

\* The requested lengths, one entry per requested ship
RECURSIVE RequestedLengths(_)
RequestedLengths(items) ==
    IF items = <<>> THEN <<>>
    ELSE [i \in 1..items[1][2] |-> items[1][1]] \o RequestedLengths(Tail(items))

\* The cell sets of the ships of length len that lie on board b
Placements(b, len) ==
    {cs \in {{<<x + i, y>> : i \in 0..(len - 1)} : x \in 1..b[1], y \in 1..b[2]}
              \cup {{<<x, y + i>> : i \in 0..(len - 1)} : x \in 1..b[1], y \in 1..b[2]} :
        cs \subseteq (1..b[1]) \X (1..b[2])}

\* Ships of lengths lens can be put on board b apart from each other and from
\* the cells of occupied
RECURSIVE FleetFits(_, _, _)
FleetFits(b, lens, occupied) ==
    IF lens = <<>> THEN TRUE
    ELSE \E cs \in Placements(b, lens[Len(lens)]) :
            /\ \A c \in cs, d \in occupied : Chebyshev(c, d) > 1
            /\ FleetFits(b, SubSeq(lens, 1, Len(lens) - 1), occupied \cup cs)

\* The configurations of InitFactory that admit no valid fleet
InfeasibleConfigs ==
    {cfg \in (Boards \X Mappings) \cup ((Boards \cup DefaultBoards) \X {DefaultShipsPerLength}) :
        ~FleetFits(cfg[1], RequestedLengths(cfg[2]), {})}

\* No candidate of the while loop would be accepted
DeadEnd ==
    /\ InWhile
    /\ \A start_coordinate \in StartCoordinates, is_horizontal_choice \in OrientationChoices :
          LET end == end_coordinate(start_coordinate, is_horizontal_choice, CurrentLength) IN
          \/ ~EndWithinBoard(end)
          \/ Len(ships) # 0 /\ NearSomeShip(NewShip(start_coordinate, end))

\* C20: generate_ships never raises, and for a configuration that admits no
\* valid fleet it never returns and never leaves its loops.
C20_InfeasibleNeverReturns ==
    /\ pc # "raised"
    /\ <<board_size, ships_per_length>> \in InfeasibleConfigs =>
          /\ pc = "generating"
          /\ key_idx <= Len(ships_per_length)

\* A placed ship leaves no room for the next one in a configuration that
\* admits no fleet
C20_Witness ==
    /\ <<board_size, ships_per_length>> \in InfeasibleConfigs
    /\ Len(ships) >= 1
    /\ DeadEnd

\* C21 as stated: on a board of at least 2x2 cells every value select_target
\* returns is a cell of the board; it never returns no target.
C21_TargetOnBoard ==
    (pcall.op = "select_target" /\ board[1] >= 2 /\ board[2] >= 2) =>
        pcall.ret \in BoardCells

\* C24: implement_strategy is true iff save_ship_initial is not None.
C24_HuntingIffAnchor == implement_strategy <=> save_ship_initial # NoneCell

\* A sunk result has ended a hunt (its last selection came from
\* strategy_function, which alone can leave previous_coordinates None): the
\* player is Idle without an anchor
C24_Witness ==
    /\ pcall.op = "receive_result"
    /\ pcall.sunk
    /\ ~implement_strategy
    /\ save_ship_initial = NoneCell
    /\ previous_coordinates = NoneCell

\* C25: no call on a ship removes a cell from damaged_cells or lowers
\* count_damaged_cells, and a ship that has sunk stays sunk.
C25_DamageMonotone ==
    [][HasShip =>
          /\ ship.damaged_cells \subseteq ship'.damaged_cells
          /\ count_damaged_cells(ship') >= count_damaged_cells(ship)
          /\ has_sunk(ship) => has_sunk(ship')]_vars

\* receive_damage has missed a sunk ship of several cells
C25_Witness ==
    /\ call.op = "receive_damage"
    /\ call.ret = "False"
    /\ has_sunk(ship)
    /\ Cardinality(ship.cells) >= 2

\* C23 as stated: for a configuration that admits a valid fleet, every partial
\* fleet generate_ships reaches leaves a candidate for the next requested ship
\* that is on the board and not near any placed ship.
C23_NeverDeadEnds ==
    <<board_size, ships_per_length>> \notin InfeasibleConfigs => ~DeadEnd

\* The ships of the fleet that occupy a cell
ShipsAt(fleet, cell) == {i \in DOMAIN fleet : cell \in fleet[i].cells}

\* C22, the targets: against a fleet with truthful results every target
\* selected while Hunting is a cell of the board, and no call fails.
C22_HuntTargets ==
    /\ turn # "raised"
    /\ (pcall.op = "select_target" /\ implement_strategy) => pcall.ret \in BoardCells

\* C22, the hits: a hit reported while Hunting is on the ship of the anchor,
\* and the hunt ends only with that ship sunk.
C22_HuntHits ==
    (implement_strategy /\ pcall'.op = "receive_result") =>
        /\ pcall'.hit =>
              /\ previous_coordinates \in BoardCells
              /\ ShipsAt(ships, previous_coordinates) = ShipsAt(ships, save_ship_initial)
        /\ ~implement_strategy' =>
              \A i \in ShipsAt(ships, save_ship_initial) : has_sunk(ships'[i])

\* C22: with a fleet of ships on the board that are not near each other and
\* truthful results, once the player is Hunting every target is a cell of the
\* board, every hit is on the hunted ship, and the player is eventually Idle
\* again with that ship sunk.
C22_HuntCompletes ==
    /\ []C22_HuntTargets
    /\ [][C22_HuntHits]_vars
    /\ implement_strategy ~> ~implement_strategy

\* A hunt for a ship of three cells, first hit in the middle, has ended with
\* the ship sunk while another ship is afloat
C22_Witness ==
    /\ pcall.op = "receive_result"
    /\ pcall.hit /\ pcall.sunk
    /\ Len(ships) = 2
    /\ \E i \in DOMAIN ships :
          /\ Cardinality(ships[i].cells) = 3
          /\ has_sunk(ships[i])
          /\ previous_coordinates \in ships[i].cells
          /\ Cardinality(attacked_positions \ ships[i].cells) >= 2
    /\ \E i \in DOMAIN ships : ~has_sunk(ships[i])

====
